---- MODULE Spec2Model ----
(***************************************************************************)
(* Model of the K-nearest-neighbour classifier of the occupancy-detection  *)
(* notebook: the function KNN, the query-point cell, the prediction cell   *)
(* (K = 111) and the training-error sweep cell, which share the notebook   *)
(* globals x_training_selected, y_training and x_q.                        *)
(***************************************************************************)
EXTENDS Integers, Sequences, FiniteSets

\* ---------------------------------------------------------------- bounds
\* Largest number of reference examples in a modelled dataset.
MaxN == 3
\* Feature vectors a reference example may take; <<0, 10>> is at the same
\* distance from the other two.
Points == {<<0, 0>>, <<0, 10>>, <<10, 10>>}
\* Largest K of the sweep that is modelled; for K >= N the slice i[0:K] is the
\* whole array and the rows of the sweep repeat.
MaxSweepK == 5
\* Direct calls of KNN try K from -KSlack to MaxN + KSlack.
KSlack == 1

\* ------------------------------------------------------ program constants
\* x_training[:, [2, 3]]: two selected features (Light, CO2).
D == 2
\* np.array([200.0, 1000.0])
QueryPoint == <<200, 1000>>
\* KNN(x_training_selected, y_training, x_q, K=111)
PredictK == 111
\* np.arange(1, 34, 2)
SweepStart == 1
SweepStop == 34
SweepStep == 2
\* Occupancy is 0 (unoccupied) or 1 (occupied).
Labels == {0, 1}

\* A notebook name that may not be bound yet holds None or Some(v).
None == {}
Some(v) == {v}
Get(s) == CHOOSE v \in s : TRUE

VARIABLES
    x_training_selected,  \* reference feature matrix: sequence of D-vectors
    y_training,           \* parallel label vector
    argsort_ties,         \* order np.argsort leaves indices of equal distance in
    x_q,                  \* notebook-global query vector
    predicted_label,      \* result of the prediction cell, None before it ran
    report,               \* output of the last run of the sweep cell
    previous_report,      \* output of the run of the sweep cell before that
    swept_since_query,    \* the sweep cell has run since the query cell last ran
    call                  \* arguments and outcome of the last recorded call of KNN

vars == <<x_training_selected, y_training, argsort_ties, x_q, predicted_label,
          report, previous_report, swept_since_query, call>>

\* ---------------------------------------------------------------- helpers
Range(s) == {s[k] : k \in 1..Len(s)}

\* np.sum of a vector.
RECURSIVE SumUpTo(_, _)
SumUpTo(s, k) == IF k = 0 THEN 0 ELSE s[k] + SumUpTo(s, k - 1)

SumSeq(s) == SumUpTo(s, Len(s))

\* (x - x_q) under numpy broadcasting of a (N, D) matrix with a (L,) vector:
\* L = D subtracts element by element, L = 1 subtracts the single value from
\* every column, any other L raises ValueError.
Broadcastable(xq) == Len(xq) = D \/ Len(xq) = 1

BroadcastAt(xq, c) == IF Len(xq) = 1 THEN xq[1] ELSE xq[c]

\* Variant: the sum over the feature axis is dropped, only column 0 counts.
SqDistFirstColumn(row, xq) ==
    (row[1] - BroadcastAt(xq, 1)) * (row[1] - BroadcastAt(xq, 1))

\* np.sum((x - x_q)**2, axis=1) for one row.  np.sqrt is strictly increasing
\* on these exactly represented integers, so the order of the distances d is
\* the order of the squared distances and the model keeps the latter.
SqDist(row, xq) ==
    SumSeq([c \in 1..D |-> (row[c] - BroadcastAt(xq, c)) * (row[c] - BroadcastAt(xq, c))])

Distances(x, xq) == [n \in 1..Len(x) |-> SqDist(x[n], xq)]

\* np.argsort(d): the indices in ascending order of d.  The default kind is
\* an unstable quicksort: the order it leaves indices of equal d in is fixed
\* for a run but not specified; the model covers the two extreme orders,
\* lowest index first ("stable") and highest index first ("reversed").
Before(d, a, b) ==
    \/ d[a] < d[b]
    \/ d[a] = d[b] /\ (IF argsort_ties = "stable" THEN a < b ELSE a > b)

RECURSIVE SortFrom(_, _)
SortFrom(d, S) ==
    IF S = {} THEN <<>>
    ELSE LET m == CHOOSE a \in S : \A b \in S \ {a} : Before(d, a, b)
         IN <<m>> \o SortFrom(d, S \ {m})

\* Variant: the sort is descending.
RECURSIVE SortFromDescending(_, _)
SortFromDescending(d, S) ==
    IF S = {} THEN <<>>
    ELSE LET m == CHOOSE a \in S : \A b \in S \ {a} : Before(d, b, a)
         IN <<m>> \o SortFromDescending(d, S \ {m})

ArgSortDescending(d) == SortFromDescending(d, 1..Len(d))

ArgSort(d) == SortFrom(d, 1..Len(d))

\* i[0:K]: Python slice of a sequence of length n; a stop beyond the end is
\* clamped, a negative stop counts from the end.
SliceStop(n, K) == IF K >= 0 THEN (IF K < n THEN K ELSE n)
                   ELSE (IF n + K > 0 THEN n + K ELSE 0)

\* Variant: the slice stops one element early, i[0:K-1].
SliceDropLast(i, K) == SubSeq(i, 1, SliceStop(Len(i), K - 1))

Slice(i, K) == SubSeq(i, 1, SliceStop(Len(i), K))

\* np.unique(y): the distinct labels in ascending order.
RECURSIVE SortedSeq(_)
SortedSeq(S) ==
    IF S = {} THEN <<>>
    ELSE LET m == CHOOSE v \in S : \A w \in S : v <= w
         IN <<m>> \o SortedSeq(S \ {m})

Unique(y) == SortedSeq(Range(y))

\* np.sum(y[i[0:K]] == label)
CountLabel(y, nb, label) == SumSeq([k \in 1..Len(nb) |-> IF y[nb[k]] = label THEN 1 ELSE 0])

\* Variants: the last maximum, and the first minimum.
ArgMaxLast(c) ==
    CHOOSE k \in 1..Len(c) :
        /\ \A j \in 1..Len(c) : c[j] <= c[k]
        /\ \A j \in 1..Len(c) : j > k => c[j] < c[k]

ArgMin(c) ==
    CHOOSE k \in 1..Len(c) :
        /\ \A j \in 1..Len(c) : c[j] >= c[k]
        /\ \A j \in 1..Len(c) : j < k => c[j] > c[k]

\* np.argmax(counts): the first index holding the maximum.
ArgMax(c) ==
    CHOOSE k \in 1..Len(c) :
        /\ \A j \in 1..Len(c) : c[j] <= c[k]
        /\ \A j \in 1..Len(c) : j < k => c[j] < c[k]

\* The K nearest neighbours as KNN selects them: i[0:K].
Neighbours(x, xq, K) == Slice(ArgSort(Distances(x, xq)), K)

\* def KNN(x, y, x_q, K=3)
KNN(x, y, xq, K) ==
    IF ~Broadcastable(xq)
    THEN [kind |-> "ValueError"]
    ELSE LET target_labels == Unique(y)
             nb == Neighbours(x, xq, K)
             target_labels_counts ==
                 [k \in 1..Len(target_labels) |-> CountLabel(y, nb, target_labels[k])]
             l == ArgMax(target_labels_counts)
         IN [kind |-> "label", label |-> target_labels[l]]

\* ------------------------------------------------------------- the sweep
\* np.arange(1, 34, 2), cut at MaxSweepK.
SweepKs ==
    {K \in SweepStart..(SweepStop - 1) :
        (K - SweepStart) % SweepStep = 0 /\ K <= MaxSweepK}

\* Variant: KNN is called before x_q is rebound, with the x_q of the
\* previous iteration (of the notebook before the cell, for the first one).
StaleQueryAt(K, n) ==
    IF n > 1 THEN x_training_selected[n - 1]
    ELSE IF K = SweepStart THEN x_q
    ELSE x_training_selected[Len(x_training_selected)]

\* x_q = x_training_selected[n], executed before the call of KNN for n.
SweepQueryAt(K, n) == x_training_selected[n]

\* y_prediction after the inner loop over n for one K.
YPrediction(K) ==
    [n \in 1..Len(y_training) |->
        KNN(x_training_selected, y_training, SweepQueryAt(K, n), K).label]

\* Variant: counts the examples predicted correctly.
MatchCount(yp) ==
    SumSeq([n \in 1..Len(y_training) |-> IF y_training[n] = yp[n] THEN 1 ELSE 0])

\* np.sum(y_training != y_prediction)
MismatchCount(yp) ==
    SumSeq([n \in 1..Len(y_training) |-> IF y_training[n] # yp[n] THEN 1 ELSE 0])

\* classification_error = np.sum(...) / N, kept as the exact fraction <<num, den>>.
ClassificationError(yp) == <<MismatchCount(yp), Len(y_training)>>

\* -------------------------------------------------------------- actions
\* No call of KNN recorded yet.
NoCall == [x_q |-> <<>>, K |-> 0, out |-> None]

Datasets ==
    UNION {[x : [1..n -> Points], y : [1..n -> Labels]] : n \in 1..MaxN}

\* The notebook after the cells up to the query-point cell have run: the
\* dataset is loaded, x_q is bound, no prediction and no sweep was made.
Init ==
    /\ \E ds \in Datasets :
         /\ x_training_selected = ds.x
         /\ y_training = ds.y
    /\ argsort_ties \in {"stable", "reversed"}
    /\ x_q = QueryPoint
    /\ swept_since_query = FALSE
    /\ predicted_label = None
    /\ report = None
    /\ previous_report = None
    /\ call = NoCall

\* x_q = np.array([200.0, 1000.0])
QueryCell ==
    /\ x_q' = QueryPoint
    /\ swept_since_query' = FALSE
    /\ UNCHANGED <<x_training_selected, y_training, argsort_ties, predicted_label,
                   report, previous_report, call>>

\* predicted_label = KNN(x_training_selected, y_training, x_q, K=111)
PredictCell ==
    LET out == KNN(x_training_selected, y_training, x_q, PredictK)
    IN /\ predicted_label' = Some(out.label)
       /\ call' = [x_q |-> x_q, K |-> PredictK, out |-> Some(out)]
       /\ UNCHANGED <<x_training_selected, y_training, argsort_ties, x_q, swept_since_query,
                      report, previous_report>>

\* One row of the table the sweep prints, with the y_prediction it was
\* computed from.
SweepRow(K) ==
    LET y_prediction == YPrediction(K)
    IN [y_prediction |-> y_prediction,
        classification_error |-> ClassificationError(y_prediction)]

\* Variant: the loop binds a local query and leaves the global x_q alone.
SweepCellLocalQuery ==
    /\ report' = Some([K \in SweepKs |-> SweepRow(K)])
    /\ previous_report' = report
    /\ swept_since_query' = TRUE
    /\ UNCHANGED <<x_training_selected, y_training, argsort_ties, x_q,
                   predicted_label, call>>

\* The training-error sweep cell, run to completion.
SweepCell ==
    /\ report' = Some([K \in SweepKs |-> SweepRow(K)])
    /\ previous_report' = report
    /\ x_q' = x_training_selected[Len(y_training)]
    /\ swept_since_query' = TRUE
    /\ UNCHANGED <<x_training_selected, y_training, argsort_ties, predicted_label, call>>

Next == QueryCell \/ PredictCell \/ SweepCell

Spec == Init /\ [][Next]_vars

\* ------------------------------------------------ KNN as a pure function
\* Query vectors of direct calls: a point two reference points can be
\* equally far from, the point (1,1), and vectors of length 1 and 3.
Queries == {<<0, 10>>, <<1, 1>>, <<5>>, <<0, 0, 0>>}

CallKs == (0 - KSlack)..(MaxN + KSlack)

InitKNN ==
    /\ \E ds \in Datasets :
         /\ x_training_selected = ds.x
         /\ y_training = ds.y
    /\ argsort_ties \in {"stable", "reversed"}
    /\ x_q = QueryPoint
    /\ swept_since_query = FALSE
    /\ predicted_label = None
    /\ report = None
    /\ previous_report = None
    /\ call \in [x_q : Queries, K : CallKs, out : {None}]

\* A direct call KNN(x_training_selected, y_training, x_q, K).
CallKNN ==
    /\ call.out = None
    /\ call' = [call EXCEPT !.out =
                   Some(KNN(x_training_selected, y_training, call.x_q, call.K))]
    /\ UNCHANGED <<x_training_selected, y_training, argsort_ties, x_q, swept_since_query,
                   predicted_label, report, previous_report>>

NextKNN == CallKNN

SpecKNN == InitKNN /\ [][NextKNN]_vars

\* ------------------------------------------------------------ properties
N == Len(y_training)

\* Squared Euclidean distance of reference example n to a D-vector q.
Dist2(n, q) ==
    (x_training_selected[n][1] - q[1]) * (x_training_selected[n][1] - q[1])
    + (x_training_selected[n][2] - q[2]) * (x_training_selected[n][2] - q[2])

\* Occurrences of label l among the reference examples of S.
CountIn(S, l) == Cardinality({n \in S : y_training[n] = l})

\* S is a set of K reference examples of smallest distance to q.
IsKNearest(S, q, K) ==
    /\ Cardinality(S) = K
    /\ \A a \in S : \A b \in (1..N) \ S : Dist2(a, q) <= Dist2(b, q)

\* l is a label of y_training whose count in S is maximal.
Majority(S, l) ==
    /\ \E n \in 1..N : y_training[n] = l
    /\ \A m \in 1..N : CountIn(S, y_training[m]) <= CountIn(S, l)

Called == call.out # None
Result == Get(call.out)
ValidQuery == Len(call.x_q) = D
ValidK == 1 <= call.K /\ call.K <= N

Swept == report # None
Row(K) == Get(report)[K]

\* Every example with the feature vector of example n has the label of n.
Consistent(n) ==
    \A m \in 1..N :
        x_training_selected[m] = x_training_selected[n] => y_training[m] = y_training[n]

\* C1: for a query of the dataset's dimensionality and 1 <= K <= N, KNN
\* returns a label of y whose count among some K reference examples of
\* smallest distance to the query is maximal.
C1_MajorityVote ==
    (Called /\ ValidQuery /\ ValidK) =>
        /\ Result.kind = "label"
        /\ \E S \in SUBSET (1..N) :
              IsKNearest(S, call.x_q, call.K) /\ Majority(S, Result.label)

\* A call with K = 2 of 3 examples that returns 1 although 0 is a label too.
C1_Witness ==
    /\ Called /\ ValidQuery /\ N = 3 /\ call.K = 2
    /\ Result.label = 1
    /\ \E n \in 1..N : y_training[n] = 0

\* C2 as stated: for every K of the sweep every training example is
\* predicted its own label, and the training error is zero.
C2_Claim ==
    Swept =>
        \A K \in SweepKs :
            /\ \A n \in 1..N : Row(K).y_prediction[n] = y_training[n]
            /\ Row(K).classification_error[1] = 0

\* C2 amended: for K = 1 a training example is predicted its own label when
\* every example with the same feature vector has that label, and the K = 1
\* training error is zero when that is so for all examples.
C2_Amended ==
    Swept =>
        /\ \A n \in 1..N :
              Consistent(n) => Row(1).y_prediction[n] = y_training[n]
        /\ (\A n \in 1..N : Consistent(n)) => Row(1).classification_error[1] = 0

\* A sweep of a dataset without conflicting duplicates, with both labels,
\* where a larger K misclassifies an example.
C2_Witness ==
    /\ Swept /\ N = 3
    /\ \A n \in 1..N : Consistent(n)
    /\ \E a, b \in 1..N : y_training[a] # y_training[b]
    /\ Row(3).classification_error[1] > 0

\* C3 as stated: a call with K <= 0 or K > N fails and yields no label.
C3_Claim ==
    (Called /\ ValidQuery /\ (call.K <= 0 \/ call.K > N)) => Result.kind # "label"

\* C4: when several labels have the maximal count among the K nearest
\* neighbours KNN returns the smallest of them (0 for a tie of 0 and 1).
C4_TieSmallest ==
    (Called /\ ValidQuery /\ ValidK) =>
        /\ Result.kind = "label"
        /\ \E S \in SUBSET (1..N) :
              /\ IsKNearest(S, call.x_q, call.K)
              /\ Majority(S, Result.label)
              /\ \A l \in Labels : Majority(S, l) => Result.label <= l

\* A call whose 2 nearest neighbours carry one 0 and one 1.
C4_Witness ==
    /\ Called /\ ValidQuery /\ call.K = 2 /\ N >= 2
    /\ \A S \in SUBSET (1..N) :
          IsKNearest(S, call.x_q, 2) => (CountIn(S, 0) = 1 /\ CountIn(S, 1) = 1)
    /\ Result.label = 0

\* C5: each row of the sweep reports (number of examples whose prediction
\* with query x[n] against the full dataset differs from y[n]) / N, a
\* value between 0 and 1.
C5_ErrorFraction ==
    Swept =>
        \A K \in SweepKs :
            LET e == Row(K).classification_error
                wrong == {n \in 1..N :
                            KNN(x_training_selected, y_training,
                                x_training_selected[n], K).label # y_training[n]}
            IN /\ e = <<Cardinality(wrong), N>>
               /\ 0 <= e[1] /\ e[1] <= e[2] /\ e[2] > 0

\* A sweep that reports an error strictly between 0 and 1.
C5_Witness ==
    /\ Swept
    /\ \E K \in SweepKs :
          /\ Row(K).classification_error[1] > 0
          /\ Row(K).classification_error[1] < Row(K).classification_error[2]

\* C6: with K = N, KNN returns a label whose count in the whole label
\* vector is maximal, whatever the query point.
C6_GlobalMajority ==
    (Called /\ ValidQuery /\ call.K = N) =>
        /\ Result.kind = "label"
        /\ Majority(1..N, Result.label)

\* A call with K = N = 3 on labels of both kinds.
C6_Witness ==
    /\ Called /\ ValidQuery /\ N = 3 /\ call.K = N
    /\ Result.label = 1
    /\ \E n \in 1..N : y_training[n] = 0

\* C7: with K = 1, KNN returns the label of a reference example nearest
\* to the query; references (0,0)->0, (10,10)->1 and query (1,1) give 0.
C7_NearestLabel ==
    (Called /\ ValidQuery /\ call.K = 1) =>
        /\ Result.kind = "label"
        /\ \E j \in 1..N :
              /\ \A m \in 1..N : Dist2(j, call.x_q) <= Dist2(m, call.x_q)
              /\ Result.label = y_training[j]
        /\ (/\ x_training_selected = <<(<<0, 0>>), (<<10, 10>>)>>
            /\ y_training = <<0, 1>>
            /\ call.x_q = <<1, 1>>) => Result.label = 0

\* The call of the example: references (0,0)->0, (10,10)->1, query (1,1).
C7_Witness ==
    /\ Called /\ call.K = 1
    /\ x_training_selected = <<(<<0, 0>>), (<<10, 10>>)>>
    /\ y_training = <<0, 1>>
    /\ call.x_q = <<1, 1>>
    /\ Result.label = 0

\* C8 as stated: a call with a query of another dimensionality than the
\* reference vectors fails and yields no label.
C8_Claim ==
    (Called /\ Len(call.x_q) # D) => Result.kind # "label"

C10_SweepRebindsQuery ==
    /\ [](swept_since_query => (Swept /\ x_q = x_training_selected[N]))
    /\ [][(PredictCell /\ swept_since_query) =>
             /\ call'.x_q = x_training_selected[N]
             /\ predicted_label' =
                  Some(KNN(x_training_selected, y_training,
                           x_training_selected[N], PredictK).label)]_vars
    /\ [][x_training_selected' = x_training_selected /\ y_training' = y_training]_vars

\* The prediction cell has run after the sweep and classified x[N].
C10_Witness ==
    /\ swept_since_query
    /\ Called /\ call.K = PredictK
    /\ call.x_q = x_training_selected[N]
    /\ predicted_label # None
====
